---- MODULE Spec2Model ----
(***************************************************************************)
(* SmartBookmark: the Home component of src/app/page.tsx as a state         *)
(* machine.  One browser tab holds the React state (user, bookmarks); the   *)
(* Supabase store holds the rows; requests travel to the store and their    *)
(* responses travel back (inflight), and the realtime channel carries the   *)
(* postgres_changes notifications (stream).                                 *)
(*                                                                         *)
(* A request and the store's work on it are one step (the handler up to    *)
(* its await); the answer then travels on its own and the rest of the      *)
(* handler is a second step, so answers of different requests complete in  *)
(* any order.                                                              *)
(*                                                                         *)
(* Timestamps are integers of one logical clock.  A null visit_count or     *)
(* last_visited_at is only ever read through (x || 0), so null is the       *)
(* number 0 and the clock starts above 0.                                   *)
(***************************************************************************)
EXTENDS Integers, Sequences, FiniteSets, Bags, TLC

\* ---------------------------------------------------------------- bounds
MaxAdds == 1        \* rows the store creates after the page is opened
MaxTicks == 1       \* ticks of the logical clock (inserts + visits)
MaxInflight == 2    \* answers in flight at once
MaxStream == 2      \* undelivered change notifications
MaxLen == 3         \* length up to which inserts are prepended; positions clicked
MaxFail == 1        \* requests the store fails
MaxTitle == 4       \* characters typed into the title field
MaxVisits == 2      \* visits a row has had before the page is opened
MaxWords == 2       \* pieces a url text is put together from

Users == {"u1"}
NoUser == "none"

\* the characters of a typed title (only its length is read)
TitleChars == {"a"}

\* user, bookmarks: the React state of Home.  alerts: the alert() dialogs
\* shown so far.  remote: the rows of the store; nextId, clock: what the
\* store assigns next.  inflight: the answers on their way to the tab;
\* stream: the notifications queued on the channel.  failures counts the
\* failed requests.  last and settled are history variables: the step
\* just taken, and whether a select that saw the present rows of the
\* user has completed since the last write or sign-in.
VARIABLES user, bookmarks, alerts, remote, nextId, clock, failures,
          inflight, stream, last, settled

\* selectedCategory: the React state behind the category buttons.  urls:
\* the url column of the rows by id, which no handler changes after the
\* insert.  other: the collection of another tab of the same user.
VARIABLES selectedCategory, urls, other

vars == <<user, bookmarks, alerts, remote, nextId, clock, failures,
          inflight, stream, last, settled, selectedCategory, urls, other>>

\* ------------------------------------------------------------ data model
\* type Bookmark (a row of the bookmarks relation, as select('*') returns it)
Bookmark(i, u, c, v, l) ==
    [id |-> i, user_id |-> u, created_at |-> c, visit_count |-> v, last_visited_at |-> l]

\* (b.visit_count || 0)
VC(b) == b.visit_count

\* new Date(b.last_visited_at || 0).getTime()
LV(b) == b.last_visited_at

\* new Date(b.created_at).getTime()
CT(b) == b.created_at

HasId(s, id) == \E i \in DOMAIN s : s[i].id = id

\* ------------------------------------------------------------- messages
\* The answer of the store to an awaited request, on its way back to the
\* tab.  op: select | fallback | insert | delete | update; st: ok | err
\* (an error is returned) | throw (the await rejects); id: the row asked
\* for; uid: the user whose handler sent it; data: the rows of a select.
Msg(op, st, id, uid, data) ==
    [op |-> op, st |-> st, id |-> id, uid |-> uid, data |-> data]

InflightCount == BagCardinality(inflight)

Send(m) == inflight (+) SetToBag({m})

Replace(m, n) == (inflight (-) SetToBag({m})) (+) SetToBag({n})

Drop(m) == inflight (-) SetToBag({m})

\* A change notification of the realtime channel.
Note(kind, row) == [kind |-> kind, row |-> row]

\* The value of last: the handler that ran, the id it was about, and
\* whether the collection held that id before.
Act(op, id, hit) == [op |-> op, id |-> id, hit |-> hit]

\* ------------------------------------------------------------------ sort
\* a comparator that looks at created_at first
UpdateCmpNewest(a, b) ==
    IF CT(b) - CT(a) # 0 THEN CT(b) - CT(a) ELSE VC(b) - VC(a)

\* (b.visit_count || 0) - (a.visit_count || 0) || created(b) - created(a)
UpdateCmp(a, b) ==
    IF VC(b) - VC(a) # 0 THEN VC(b) - VC(a) ELSE CT(b) - CT(a)

\* the comparator of handleBookmarkVisit
VisitCmp(a, b) ==
    IF VC(b) # VC(a) THEN VC(b) - VC(a) ELSE LV(b) - LV(a)

\* .order('visit_count', desc).order('created_at', desc)
PrimaryCmp(a, b) ==
    IF b.visit_count # a.visit_count THEN b.visit_count - a.visit_count
    ELSE b.created_at - a.created_at

\* .order('created_at', desc)
FallbackCmp(a, b) == b.created_at - a.created_at

\* the comparator a sort or an order clause is called with
Compare(by, a, b) ==
    CASE by = "update" -> UpdateCmp(a, b)
      [] by = "visit" -> VisitCmp(a, b)
      [] by = "primary" -> PrimaryCmp(a, b)
      [] OTHER -> FallbackCmp(a, b)

\* an unstable sort: x goes in front of the elements that compare equal
RECURSIVE InsertByFront(_, _, _)
InsertByFront(by, x, s) ==
    IF s = <<>> THEN <<x>>
    ELSE IF Compare(by, Head(s), x) >= 0 THEN <<x>> \o s
    ELSE <<Head(s)>> \o InsertByFront(by, x, Tail(s))

\* Array.prototype.sort is stable: x goes behind every element that does
\* not compare greater than it.
RECURSIVE InsertBy(_, _, _)
InsertBy(by, x, s) ==
    IF s = <<>> THEN <<x>>
    ELSE IF Compare(by, Head(s), x) > 0 THEN <<x>> \o s
    ELSE <<Head(s)>> \o InsertBy(by, x, Tail(s))

RECURSIVE SortBy(_, _)
SortBy(by, s) ==
    IF s = <<>> THEN <<>>
    ELSE InsertBy(by, s[Len(s)], SortBy(by, SubSeq(s, 1, Len(s) - 1)))

\* ----------------------------------------------------------------- store
\* row level security: a session reads and writes its own rows only
RowsOf(u) == {r \in remote : r.user_id = u}

\* the rows S in the order of the order clause
RECURSIVE SetToSortedSeq(_, _)
SetToSortedSeq(by, S) ==
    IF S = {} THEN <<>>
    ELSE LET x == CHOOSE y \in S : \A z \in S : Compare(by, y, z) <= 0
         IN  <<x>> \o SetToSortedSeq(by, S \ {x})

\* The answers the store can give to a select sent with session u.  The
\* store fails MaxFail requests; the fallback select belongs to a primary
\* select that has failed already and may fail with it.
SelectAnswers(op, u) ==
    {Msg(op, "ok", 0, u,
         SetToSortedSeq(IF op = "select" THEN "primary" ELSE "fallback", RowsOf(u)))}
    \cup (IF op = "fallback" \/ failures < MaxFail
          THEN {Msg(op, "err", 0, u, <<>>), Msg(op, "throw", 0, u, <<>>)} ELSE {})

\* the answer m of a select lists exactly the rows the user has now
SeesPresentRows(m) ==
    /\ m.st = "ok" /\ user # NoUser /\ m.uid = user
    /\ Len(m.data) = Cardinality(RowsOf(user))
    /\ {m.data[i] : i \in DOMAIN m.data} = RowsOf(user)

\* the store fails a request only MaxFail times
Failed(st) ==
    /\ st # "ok" => failures < MaxFail
    /\ failures' = IF st = "ok" THEN failures ELSE failures + 1

\* The channel exists while a user is set and is filtered on user_id.
Publish(kind, row) ==
    IF user # NoUser /\ row.user_id = user THEN Append(stream, Note(kind, row))
    ELSE stream

\* -------------------------------------------------------------- initial
\* Rows a returning user may already have when the page is opened: an
\* older bookmark never visited and a newer one that was visited once.
OldRows == {Bookmark(1, "u1", 1, 0, 0), Bookmark(2, "u1", 3, 1, 4)}

\* a third, newest row, never visited
ThirdRow == Bookmark(3, "u1", 5, 0, 0)

\* the words the two classifiers of the page look for in a url
Github == <<"g", "i", "t", "h", "u", "b">>
Stack == <<"s", "t", "a", "c", "k">>
Api == <<"a", "p", "i">>
Google == <<"g", "o", "o", "g", "l", "e">>
Docs == <<"d", "o", "c", "s">>
Youtube == <<"y", "o", "u", "t", "u", "b", "e">>
Twitter == <<"t", "w", "i", "t", "t", "e", "r">>
Social == <<"s", "o", "c", "i", "a", "l">>

\* a piece of url text that holds none of them
Plain == <<"e", ".">>

\* the urls of these rows
OldUrls == (1 :> Github) @@ (2 :> Google) @@ (3 :> Plain)

Largest(S) == CHOOSE x \in S : \A y \in S : y <= x

\* the store hands out ids and timestamps above the ones it holds
FirstId == Largest({r.id : r \in OldRows \cup {ThirdRow}}) + 1

FirstTick ==
    Largest({r.created_at : r \in OldRows \cup {ThirdRow}}
            \cup {r.last_visited_at : r \in OldRows \cup {ThirdRow}}) + 1

\* useState(null), useState([]): nobody signed in, nothing shown
Init ==
    /\ user = NoUser
    /\ bookmarks = <<>>
    /\ alerts = 0
    /\ remote \in SUBSET OldRows
    /\ nextId = FirstId
    /\ clock = FirstTick
    /\ failures = 0
    /\ inflight = EmptyBag
    /\ stream = <<>>
    /\ last = Act("init", 0, FALSE)
    /\ settled = FALSE
    /\ selectedCategory = "All"
    /\ urls = OldUrls
    /\ other = <<>>

\* the same page opened by a user who already has three rows
InitReturning ==
    /\ user = NoUser
    /\ bookmarks = <<>>
    /\ alerts = 0
    /\ remote = OldRows \cup {ThirdRow}
    /\ nextId = FirstId
    /\ clock = FirstTick
    /\ failures = 0
    /\ inflight = EmptyBag
    /\ stream = <<>>
    /\ last = Act("init", 0, FALSE)
    /\ settled = FALSE
    /\ selectedCategory = "All"
    /\ urls = OldUrls
    /\ other = <<>>

\* Rows as other sessions of the user may have left them: ids 1..3, each
\* never visited or visited up to MaxVisits times at one of two earlier
\* moments; the rows 2 and 3 may have been created in the same instant.
\* created_at is the clock of the store and last_visited_at the clock of
\* a browser, so a visit may be dated before the row was created.
SortRows ==
    {Bookmark(i, "u1", c, v, l) :
        i \in 1..3, c \in {1, 3, 5}, v \in 0..MaxVisits, l \in {0, 2, 4}}

IsSortRow(r) ==
    /\ r \in SortRows
    /\ r.created_at \in (IF r.id = 1 THEN {1} ELSE IF r.id = 2 THEN {3} ELSE {3, 5})
    /\ (r.visit_count = 0) = (r.last_visited_at = 0)

\* the orders a set of rows can be listed in
Orders(S) ==
    {s \in [1..Cardinality(S) -> S] : \A i, j \in DOMAIN s : i # j => s[i] # s[j]}

\* A signed-in tab at rest: the collection lists the rows of the store, in
\* whatever order fetches, prepended inserts and earlier sorts left it.
InitSort ==
    /\ user = "u1"
    /\ \E ids \in SUBSET (1..3) : \E f \in [ids -> {r \in SortRows : IsSortRow(r)}] :
          /\ \A i \in ids : f[i].id = i
          /\ remote = {f[i] : i \in ids}
    /\ bookmarks \in Orders(remote)
    /\ alerts = 0
    /\ nextId = FirstId
    /\ clock = FirstTick
    /\ failures = 0
    /\ inflight = EmptyBag
    /\ stream = <<>>
    /\ last = Act("init", 0, FALSE)
    /\ settled = FALSE
    /\ selectedCategory = "All"
    /\ urls = OldUrls
    /\ other = <<>>

\* ------------------------------------------------------- fetchBookmarks
\* if (!user) return; otherwise the primary select is sent with the
\* session of the moment (closure is the user the callback was built
\* with) and its answer sets off for the tab.
FetchBookmarks(closure, session, rest) ==
    IF closure = NoUser
    THEN inflight' = rest /\ UNCHANGED failures
    ELSE \E r \in SelectAnswers("select", session) :
            /\ inflight' = rest (+) SetToBag({r})
            /\ Failed(r.st)

\* setUser(session?.user ?? null), then the effects that depend on user:
\* the old channel is removed, and for a user a fetch is started and a
\* new channel is subscribed.
AuthStateChange(u) ==
    /\ u # user
    /\ u # NoUser => InflightCount < MaxInflight
    /\ user' = u
    /\ stream' = <<>>
    /\ FetchBookmarks(u, u, inflight)
    /\ last' = Act("auth", 0, FALSE)
    /\ settled' = FALSE
    /\ UNCHANGED <<bookmarks, alerts, remote, nextId, clock>>
    /\ UNCHANGED <<selectedCategory, urls, other>>

\* a handler that fetches whatever the visibility is
HandleRefreshAlways(vs) ==
    /\ user # NoUser
    /\ InflightCount < MaxInflight
    /\ FetchBookmarks(user, user, inflight)
    /\ last' = Act(vs, 0, FALSE)
    /\ UNCHANGED <<user, bookmarks, alerts, remote, nextId, clock, stream, settled>>
    /\ UNCHANGED <<selectedCategory, urls, other>>

\* 'visibilitychange': handleRefresh reads document.visibilityState (vs)
\* and fetches when it is 'visible'.  Without a user fetchBookmarks
\* returns at once and nothing happens.
HandleRefresh(vs) ==
    /\ user # NoUser
    /\ IF vs = "visible"
       THEN /\ InflightCount < MaxInflight
            /\ FetchBookmarks(user, user, inflight)
       ELSE UNCHANGED <<inflight, failures>>
    /\ last' = Act(vs, 0, FALSE)
    /\ UNCHANGED settled
    /\ UNCHANGED <<user, bookmarks, alerts, remote, nextId, clock, stream>>
    /\ UNCHANGED <<selectedCategory, urls, other>>

\* window 'focus': the listener is fetchBookmarks itself
WindowFocus ==
    /\ user # NoUser
    /\ InflightCount < MaxInflight
    /\ FetchBookmarks(user, user, inflight)
    /\ last' = Act("focus", 0, FALSE)
    /\ UNCHANGED settled
    /\ UNCHANGED <<user, bookmarks, alerts, remote, nextId, clock, stream>>
    /\ UNCHANGED <<selectedCategory, urls, other>>

\* the primary select answered: data replaces the collection, an error
\* starts the fallback select, an exception is logged
SelectDone(m) ==
    /\ m.op = "select"
    /\ bookmarks' = IF m.st = "ok" THEN m.data ELSE bookmarks
    /\ IF m.st = "err"
       THEN \E r \in SelectAnswers("fallback", user) :
               /\ inflight' = Replace(m, r)
               /\ UNCHANGED failures
       ELSE inflight' = Drop(m) /\ UNCHANGED failures
    /\ last' = Act("select_" \o m.st, 0, FALSE)
    /\ settled' = (settled \/ SeesPresentRows(m))
    /\ UNCHANGED <<user, alerts, remote, nextId, clock, stream>>
    /\ UNCHANGED <<selectedCategory, urls, other>>

\* a fallback whose rows are dropped
FallbackDoneKeep(m) ==
    /\ m.op = "fallback"
    /\ inflight' = Drop(m)
    /\ last' = Act("fallback_" \o m.st, 0, FALSE)
    /\ UNCHANGED <<user, bookmarks, alerts, remote, nextId, clock, failures, stream, settled>>
    /\ UNCHANGED <<selectedCategory, urls, other>>

\* a fallback that empties the collection when it has no rows to show
FallbackDoneClear(m) ==
    /\ m.op = "fallback"
    /\ bookmarks' = m.data
    /\ inflight' = Drop(m)
    /\ last' = Act("fallback_" \o m.st, 0, FALSE)
    /\ settled' = (settled \/ SeesPresentRows(m))
    /\ UNCHANGED <<user, alerts, remote, nextId, clock, failures, stream>>
    /\ UNCHANGED <<selectedCategory, urls, other>>

\* the fallback select answered: if (fallbackData) setBookmarks(fallbackData)
FallbackDone(m) ==
    /\ m.op = "fallback"
    /\ bookmarks' = IF m.st = "ok" THEN m.data ELSE bookmarks
    /\ inflight' = Drop(m)
    /\ last' = Act("fallback_" \o m.st, 0, FALSE)
    /\ settled' = (settled \/ SeesPresentRows(m))
    /\ UNCHANGED <<user, alerts, remote, nextId, clock, failures, stream>>
    /\ UNCHANGED <<selectedCategory, urls, other>>

\* ---------------------------------------------------- handleAddBookmark
\* A string is the sequence of its characters.  What the URL constructor
\* makes of the text of the url field is part of the value: the field is
\* empty, new URL(url) throws, or it has a hostname.
Url(kind, hostname) == [kind |-> kind, hostname |-> hostname]

Www == <<"w", "w", "w", ".">>

\* s begins with p
StartsWith(s, p) == Len(s) >= Len(p) /\ SubSeq(s, 1, Len(p)) = p

\* String.prototype.replace with a string pattern: the first occurrence
\* of pat in s, wherever it is, is replaced by rep
RECURSIVE ReplaceFirst(_, _, _)
ReplaceFirst(s, pat, rep) ==
    IF StartsWith(s, pat) THEN rep \o SubSeq(s, Len(pat) + 1, Len(s))
    ELSE IF s = <<>> THEN <<>>
    ELSE <<Head(s)>> \o ReplaceFirst(Tail(s), pat, rep)

\* what the user may have typed into the title field
Titles == UNION {[1..n -> TitleChars] : n \in 0..MaxTitle}

\* host names with no, a leading, an inner and a repeated 'www.'
Hosts ==
    {<<"e">>, Www \o <<"e">>, <<"e">> \o Www \o <<"e">>, Www \o Www \o <<"e">>,
     <<"w", "w", "w">>}

\* what the user may have typed into the url field
Urls == {Url("empty", <<>>), Url("unparsable", <<>>)} \cup {Url("parsed", h) : h \in Hosts}

\* the text of the url field, as it is stored in the url column
TextOf(url) ==
    IF url.kind = "parsed" THEN <<"h", "t", "t", "p", "s", ":", "/", "/">> \o url.hostname
    ELSE IF url.kind = "unparsable" THEN <<"e">>
    ELSE <<>>

\* title 'ab' and url 'https://www.e/x'
ExampleTitle == <<"a", "b">>

ExampleUrl == Url("parsed", Www \o <<"e">>)

\* let finalTitle = title; if (title.length < 3) { try { finalTitle =
\* new URL(url).hostname.replace('www.', '') } catch { finalTitle = title } }
FinalTitle(title, url) ==
    IF Len(title) < 3
    THEN IF url.kind = "parsed" THEN ReplaceFirst(url.hostname, Www, <<>>) ELSE title
    ELSE title

\* the value of last after a submit of the add form: what was typed
ActAdd(title, url) == [op |-> "add", id |-> 0, hit |-> FALSE, title |-> title, url |-> url]

\* The add form is submitted with title and url typed in.
\* if (!title || !url || !user) return; the insert of {title: finalTitle,
\* url, user_id} is sent and the store either adds the row, assigning id
\* and created_at, or returns an error.
HandleAddBookmark(st, title, url) ==
    /\ title # <<>> /\ url.kind # "empty"
    /\ user # NoUser
    /\ InflightCount < MaxInflight
    /\ st \in {"ok", "err"}
    /\ Failed(st)
    /\ inflight' = Send(Msg("insert", st, 0, user,
                            [title |-> FinalTitle(title, url), url |-> url]))
    /\ IF st = "ok"
       THEN /\ nextId < FirstId + MaxAdds /\ clock < FirstTick + MaxTicks
            /\ Len(stream) < MaxStream
            /\ LET row == Bookmark(nextId, user, clock + 1, 0, 0)
               IN  /\ remote' = remote \cup {row}
                   /\ stream' = Publish("INSERT", row)
            /\ nextId' = nextId + 1
            /\ clock' = clock + 1
       ELSE UNCHANGED <<remote, stream, nextId, clock>>
    /\ urls' = IF st = "ok" THEN urls @@ (nextId :> TextOf(url)) ELSE urls
    /\ last' = ActAdd(title, url)
    /\ settled' = FALSE
    /\ UNCHANGED <<user, bookmarks, alerts>>
    /\ UNCHANGED <<selectedCategory, other>>

\* a failed insert that tells the user nothing
InsertDoneSilent(m) ==
    /\ m.op = "insert"
    /\ alerts' = alerts
    /\ IF m.st = "err"
       THEN inflight' = Drop(m) /\ UNCHANGED failures
       ELSE FetchBookmarks(m.uid, user, Drop(m))
    /\ last' = Act("insert_" \o m.st, 0, FALSE)
    /\ UNCHANGED <<user, bookmarks, remote, nextId, clock, stream, settled>>
    /\ UNCHANGED <<selectedCategory, urls, other>>

\* an insert whose success also puts the submitted object into the
\* collection, before anything comes back from the store
InsertDoneOptimistic(m) ==
    /\ m.op = "insert"
    /\ IF m.st = "err"
       THEN /\ alerts' = alerts + 1
            /\ inflight' = Drop(m)
            /\ bookmarks' = bookmarks
            /\ UNCHANGED failures
       ELSE /\ alerts' = alerts
            /\ bookmarks' = <<Bookmark(0, m.uid, 0, 0, 0)>> \o bookmarks
            /\ FetchBookmarks(m.uid, user, Drop(m))
    /\ last' = Act("insert_" \o m.st, 0, FALSE)
    /\ UNCHANGED settled
    /\ UNCHANGED <<user, remote, nextId, clock, stream>>
    /\ UNCHANGED <<selectedCategory, urls, other>>

\* if (error) { alert(...) } else { ...; fetchBookmarks() }
InsertDone(m) ==
    /\ m.op = "insert"
    /\ IF m.st = "err"
       THEN /\ alerts' = alerts + 1
            /\ inflight' = Drop(m)
            /\ UNCHANGED failures
       ELSE /\ alerts' = alerts
            /\ FetchBookmarks(m.uid, user, Drop(m))
    /\ last' = Act("insert_" \o m.st, 0, FALSE)
    /\ UNCHANGED settled
    /\ UNCHANGED <<user, bookmarks, remote, nextId, clock, stream>>
    /\ UNCHANGED <<selectedCategory, urls, other>>

\* ------------------------------------------------- handleDeleteBookmark
\* the delete button of the i-th entry: delete().eq('id', id) removes the
\* row when the session owns it, or the store returns an error
HandleDeleteBookmark(i, st) ==
    /\ i \in DOMAIN bookmarks
    /\ InflightCount < MaxInflight
    /\ st \in {"ok", "err"}
    /\ Failed(st)
    /\ inflight' = Send(Msg("delete", st, bookmarks[i].id, user, <<>>))
    /\ IF st = "ok"
       THEN LET hit == {r \in RowsOf(user) : r.id = bookmarks[i].id}
            IN  /\ Len(stream) < MaxStream
                /\ remote' = remote \ hit
                /\ stream' = IF hit = {} THEN stream
                             ELSE Publish("DELETE", CHOOSE r \in hit : TRUE)
       ELSE UNCHANGED <<remote, stream>>
    /\ last' = Act("delete", bookmarks[i].id, TRUE)
    /\ settled' = FALSE
    /\ UNCHANGED <<user, bookmarks, alerts, nextId, clock>>
    /\ UNCHANGED <<selectedCategory, urls, other>>

\* if (!error) setBookmarks(current => current.filter(b => b.id !== id))
DeleteDone(m) ==
    /\ m.op = "delete"
    /\ bookmarks' = IF m.st = "ok" THEN SelectSeq(bookmarks, LAMBDA b : b.id # m.id)
                    ELSE bookmarks
    /\ inflight' = Drop(m)
    /\ last' = Act("delete_" \o m.st, m.id, HasId(bookmarks, m.id))
    /\ UNCHANGED settled
    /\ UNCHANGED <<user, alerts, remote, nextId, clock, failures, stream>>
    /\ UNCHANGED <<selectedCategory, urls, other>>

\* a visit that counts for every entry of the collection
VisitedAll(current, id, now) ==
    [i \in DOMAIN current |->
        [current[i] EXCEPT !.visit_count = VC(current[i]) + 1,
                           !.last_visited_at = now]]

\* -------------------------------------------------- handleBookmarkVisit
\* current.map(b => b.id === id ? {...b, visit_count + 1, last_visited_at: now} : b)
Visited(current, id, now) ==
    [i \in DOMAIN current |->
        IF current[i].id = id
        THEN [current[i] EXCEPT !.visit_count = VC(current[i]) + 1,
                                !.last_visited_at = now]
        ELSE current[i]]

\* the setBookmarks updater of handleBookmarkVisit
VisitUpdate(current, id, now) == SortBy("visit", Visited(current, id, now))

\* a click on the link of the i-th entry (or on Jump In for that entry):
\* handleBookmarkVisit(b.id, b.visit_count || 0).  The collection is
\* updated at once; update({visit_count: currentCount + 1, last_visited_at:
\* now}).eq('id', id) is sent and the store applies it, returns an error
\* or the await rejects.
HandleBookmarkVisit(i, st) ==
    /\ i \in DOMAIN bookmarks
    /\ InflightCount < MaxInflight
    /\ clock < FirstTick + MaxTicks
    /\ st \in {"ok", "err", "throw"}
    /\ Failed(st)
    /\ clock' = clock + 1
    /\ bookmarks' = VisitUpdate(bookmarks, bookmarks[i].id, clock')
    /\ inflight' = Send(Msg("update", st, bookmarks[i].id, user, <<>>))
    /\ IF st = "ok"
       THEN LET hit == {r \in RowsOf(user) : r.id = bookmarks[i].id}
                new == {[r EXCEPT !.visit_count = VC(bookmarks[i]) + 1,
                                  !.last_visited_at = clock'] : r \in hit}
            IN  /\ Len(stream) < MaxStream
                /\ remote' = (remote \ hit) \cup new
                /\ stream' = IF hit = {} THEN stream
                             ELSE Publish("UPDATE", CHOOSE r \in new : TRUE)
       ELSE UNCHANGED <<remote, stream>>
    /\ last' = Act("visit", bookmarks[i].id, TRUE)
    /\ settled' = FALSE
    /\ UNCHANGED <<user, alerts, nextId>>
    /\ UNCHANGED <<selectedCategory, urls, other>>

\* a failed update that takes the visit back
UpdateDoneRollback(m) ==
    /\ m.op = "update"
    /\ bookmarks' = IF m.st = "ok" THEN bookmarks
                    ELSE [i \in DOMAIN bookmarks |->
                            IF bookmarks[i].id = m.id
                            THEN [bookmarks[i] EXCEPT !.visit_count = VC(bookmarks[i]) - 1]
                            ELSE bookmarks[i]]
    /\ inflight' = Drop(m)
    /\ last' = Act("update_" \o m.st, m.id, HasId(bookmarks, m.id))
    /\ UNCHANGED <<user, alerts, remote, nextId, clock, failures, stream, settled>>
    /\ UNCHANGED <<selectedCategory, urls, other>>

\* the awaited update settles: nothing is read from it; an exception is logged
UpdateDone(m) ==
    /\ m.op = "update"
    /\ inflight' = Drop(m)
    /\ last' = Act("update_" \o m.st, m.id, HasId(bookmarks, m.id))
    /\ UNCHANGED settled
    /\ UNCHANGED <<user, bookmarks, alerts, remote, nextId, clock, failures, stream>>
    /\ UNCHANGED <<selectedCategory, urls, other>>

\* an insert notification that is not shown
OnInsertDropped(current, row) == current

\* ------------------------------------------- postgres_changes handler
\* INSERT: [payload.new, ...current]
OnInsert(current, row) == <<row>> \o current

\* a delete that takes out the first entry of the id only
OnDeleteFirst(current, row) ==
    IF ~HasId(current, row.id) THEN current
    ELSE LET k == CHOOSE i \in DOMAIN current :
                    /\ current[i].id = row.id
                    /\ \A j \in 1..(i - 1) : current[j].id # row.id
         IN  SubSeq(current, 1, k - 1) \o SubSeq(current, k + 1, Len(current))

\* DELETE: current.filter(bookmark => bookmark.id !== payload.old.id)
OnDelete(current, row) == SelectSeq(current, LAMBDA b : b.id # row.id)

\* current.map(bookmark => bookmark.id === payload.new.id ? payload.new : bookmark)
Replaced(current, row) ==
    [i \in DOMAIN current |-> IF current[i].id = row.id THEN row ELSE current[i]]

\* UPDATE: map payload.new over the matching id, then sort
OnUpdate(current, row) == SortBy("update", Replaced(current, row))

OnPostgresChanges(current, n) ==
    IF n.kind = "INSERT" THEN OnInsert(current, n.row)
    ELSE IF n.kind = "DELETE" THEN OnDelete(current, n.row)
    ELSE IF n.kind = "UPDATE" THEN OnUpdate(current, n.row)
    ELSE current

\* The channel hands the oldest notification to the handler; delivery is
\* at least once, so the notification may stay queued (again = TRUE).
Deliver(again) ==
    /\ stream # <<>>
    /\ Head(stream).kind = "INSERT" => Len(bookmarks) < MaxLen
    /\ bookmarks' = OnPostgresChanges(bookmarks, Head(stream))
    /\ stream' = IF again THEN stream ELSE Tail(stream)
    /\ last' = Act(Head(stream).kind, Head(stream).row.id,
                   HasId(bookmarks, Head(stream).row.id))
    /\ UNCHANGED settled
    /\ UNCHANGED <<user, alerts, remote, nextId, clock, failures, inflight>>
    /\ UNCHANGED <<selectedCategory, urls, other>>

\* -------------------------------------------------- Next Best Action card
\* The card is rendered for bookmarks.length > 0 (with no category and no
\* search chosen); Jump In visits
\*   (b[0]?.visit_count || 0) > (b[1]?.visit_count || 0) ? b[0] : (b[1] || b[0])
\* The position of that entry in the collection, 0 when there is no card.
NextBestAction(s) ==
    IF Len(s) = 0 THEN 0
    ELSE IF VC(s[1]) > (IF Len(s) >= 2 THEN VC(s[2]) ELSE 0) THEN 1
    ELSE IF Len(s) >= 2 THEN 2
    ELSE 1

Messages == BagToSet(inflight)

Next ==
    \/ \E u \in Users \cup {NoUser} : AuthStateChange(u)
    \/ \E vs \in {"visible", "hidden"} : HandleRefresh(vs)
    \/ WindowFocus
    \/ \E m \in Messages : SelectDone(m)
    \/ \E m \in Messages : FallbackDone(m)
    \/ \E st \in {"ok", "err"} : HandleAddBookmark(st, ExampleTitle, ExampleUrl)
    \/ \E m \in Messages : InsertDone(m)
    \/ \E i \in 1..MaxLen, st \in {"ok", "err"} : HandleDeleteBookmark(i, st)
    \/ \E m \in Messages : DeleteDone(m)
    \/ \E i \in 1..MaxLen, st \in {"ok", "err", "throw"} : HandleBookmarkVisit(i, st)
    \/ \E m \in Messages : UpdateDone(m)
    \/ \E again \in BOOLEAN : Deliver(again)

Spec == Init /\ [][Next]_vars

SpecReturning == InitReturning /\ [][Next]_vars

\* ------------------------------------------------- categories and filter
\* String.prototype.includes: k occurs in s as a substring
Includes(s, k) ==
    \E i \in 1..(Len(s) - Len(k) + 1) : SubSeq(s, i, i + Len(k) - 1) = k

\* a classifier that tests the productivity words first
ClassifyProductivityFirst(url) ==
    IF Includes(url, Google) \/ Includes(url, Docs) THEN "Productivity"
    ELSE IF Includes(url, Github) \/ Includes(url, Stack) \/ Includes(url, Api) THEN "Dev Tools"
    ELSE IF Includes(url, Youtube) \/ Includes(url, Twitter) \/ Includes(url, Social)
         THEN "Entertainment"
    ELSE "General"

\* the callback of bookmarks.map in categories
Classify(url) ==
    IF Includes(url, Github) \/ Includes(url, Stack) \/ Includes(url, Api) THEN "Dev Tools"
    ELSE IF Includes(url, Google) \/ Includes(url, Docs) THEN "Productivity"
    ELSE IF Includes(url, Youtube) \/ Includes(url, Twitter) \/ Includes(url, Social)
         THEN "Entertainment"
    ELSE "General"

\* b.url
UrlOf(b) == urls[b.id]

\* Array.from(new Set(s)): the values of s in the order of their first
\* occurrence
RECURSIVE Distinct(_)
Distinct(s) ==
    IF s = <<>> THEN <<>>
    ELSE LET d == Distinct(SubSeq(s, 1, Len(s) - 1))
         IN  IF \E i \in DOMAIN d : d[i] = s[Len(s)] THEN d ELSE Append(d, s[Len(s)])

\* const categories = ['All', ...Array.from(new Set(bookmarks.map(...)))]
Categories(s) == <<"All">> \o Distinct([i \in DOMAIN s |-> Classify(UrlOf(s[i]))])

\* useState(''): nothing is typed into the search field
SearchQuery == <<>>

\* const cat = ... of the list filter
Cat(b) ==
    IF Includes(UrlOf(b), Github) THEN "Dev Tools"
    ELSE IF Includes(UrlOf(b), Google) THEN "Productivity"
    ELSE "General"

\* matchesSearch, for urls and queries in lower case; a title includes the
\* empty query as every url does
MatchesSearch(b) == Includes(UrlOf(b), SearchQuery)

\* matchesCat, with sel the value of selectedCategory
MatchesCat(b, sel) == sel = "All" \/ Cat(b) = sel

\* the entries the list renders when sel is selected: bookmarks.filter(...)
Shown(s, sel) == SelectSeq(s, LAMBDA b : MatchesSearch(b) /\ MatchesCat(b, sel))

\* a click on the button of a category: setSelectedCategory(cat)
SetSelectedCategory(cat) ==
    /\ LET shown == Categories(bookmarks)
       IN  \E i \in DOMAIN shown : shown[i] = cat
    /\ selectedCategory' = cat
    /\ last' = Act("category", 0, FALSE)
    /\ UNCHANGED <<user, bookmarks, alerts, remote, nextId, clock, failures,
                   inflight, stream, settled, urls, other>>

\* what url texts are put together from
Pieces == {Github, Stack, Api, Google, Docs, Youtube, Twitter, Social, Plain}

\* the texts of up to n pieces
RECURSIVE Texts(_)
Texts(n) ==
    IF n = 0 THEN {<<>>}
    ELSE Texts(n - 1) \cup {t \o p : t \in Texts(n - 1), p \in Pieces}

\* the urls a row may hold
UrlTexts == Texts(MaxWords) \ {<<>>}

\* A signed-in tab at rest that lists the two old rows: the older one with
\* any url, the newer one with a url of one piece.
InitFilter ==
    /\ user = "u1"
    /\ remote = OldRows
    /\ bookmarks = SetToSortedSeq("primary", remote)
    /\ alerts = 0
    /\ nextId = FirstId
    /\ clock = FirstTick
    /\ failures = 0
    /\ inflight = EmptyBag
    /\ stream = <<>>
    /\ last = Act("init", 0, FALSE)
    /\ settled = FALSE
    /\ selectedCategory = "All"
    /\ \E t1 \in UrlTexts, t2 \in Pieces : urls = (1 :> t1) @@ (2 :> t2) @@ (3 :> Plain)
    /\ other = <<>>

\* The category buttons, deletes that the store carries out, and their
\* notifications.
NextFilter ==
    \/ \E cat \in {"All", "Dev Tools", "Productivity", "Entertainment", "General"} :
          SetSelectedCategory(cat)
    \/ \E i \in 1..MaxLen : HandleDeleteBookmark(i, "ok")
    \/ \E m \in Messages : DeleteDone(m)
    \/ Deliver(FALSE)

SpecFilter == InitFilter /\ [][NextFilter]_vars

\* A signed-in tab at rest that lists one row, with any url, and the
\* category buttons that the row brings about.
InitClassify ==
    /\ user = "u1"
    /\ remote = {r \in OldRows : r.id = 1}
    /\ bookmarks = SetToSortedSeq("primary", remote)
    /\ alerts = 0
    /\ nextId = FirstId
    /\ clock = FirstTick
    /\ failures = 0
    /\ inflight = EmptyBag
    /\ stream = <<>>
    /\ last = Act("init", 0, FALSE)
    /\ settled = FALSE
    /\ selectedCategory = "All"
    /\ \E t1 \in UrlTexts : urls = (1 :> t1) @@ (2 :> Plain) @@ (3 :> Plain)
    /\ other = <<>>

NextClassify ==
    \E cat \in {"All", "Dev Tools", "Productivity", "Entertainment", "General"} :
       SetSelectedCategory(cat)

SpecClassify == InitClassify /\ [][NextClassify]_vars

\* ------------------------------------------------------------ two tabs
\* A second tab of the same user runs the same handlers on its own
\* collection, other.  Each of its handlers is one step: the store applies
\* the request, the notification is queued for the first tab, and the
\* second tab's own state is updated.  The second tab does not hear the
\* writes of the first.

\* handleAddBookmark in the second tab, the insert succeeding and the
\* refetch listing the rows
OtherAdd ==
    /\ user # NoUser
    /\ nextId < FirstId + MaxAdds /\ clock < FirstTick + MaxTicks
    /\ Len(stream) < MaxStream
    /\ LET row == Bookmark(nextId, user, clock + 1, 0, 0)
       IN  /\ remote' = remote \cup {row}
           /\ stream' = Publish("INSERT", row)
           /\ other' = SetToSortedSeq("primary", RowsOf(user) \cup {row})
    /\ nextId' = nextId + 1
    /\ clock' = clock + 1
    /\ urls' = urls @@ (nextId :> TextOf(ExampleUrl))
    /\ last' = Act("other_add", nextId, FALSE)
    /\ UNCHANGED <<user, bookmarks, alerts, failures, inflight, settled, selectedCategory>>

\* handleDeleteBookmark in the second tab for its i-th entry
OtherDelete(i) ==
    /\ i \in DOMAIN other
    /\ Len(stream) < MaxStream
    /\ LET hit == {r \in RowsOf(user) : r.id = other[i].id}
       IN  /\ remote' = remote \ hit
           /\ stream' = IF hit = {} THEN stream
                        ELSE Publish("DELETE", CHOOSE r \in hit : TRUE)
    /\ other' = SelectSeq(other, LAMBDA b : b.id # other[i].id)
    /\ last' = Act("other_delete", other[i].id, HasId(bookmarks, other[i].id))
    /\ UNCHANGED <<user, bookmarks, alerts, nextId, clock, failures, inflight,
                   settled, selectedCategory, urls>>

\* handleBookmarkVisit in the second tab for its i-th entry, at the time
\* the clock shows
OtherVisit(i) ==
    /\ i \in DOMAIN other
    /\ VC(other[i]) < MaxVisits
    /\ Len(stream) < MaxStream
    /\ other' = VisitUpdate(other, other[i].id, clock)
    /\ LET hit == {r \in RowsOf(user) : r.id = other[i].id}
           new == {[r EXCEPT !.visit_count = VC(other[i]) + 1,
                             !.last_visited_at = clock] : r \in hit}
       IN  /\ remote' = (remote \ hit) \cup new
           /\ stream' = IF hit = {} THEN stream
                        ELSE Publish("UPDATE", CHOOSE r \in new : TRUE)
    /\ last' = Act("other_visit", other[i].id, HasId(bookmarks, other[i].id))
    /\ UNCHANGED <<user, bookmarks, alerts, nextId, clock, failures, inflight,
                   settled, selectedCategory, urls>>

\* Both tabs are signed in and list the two old rows.
InitTabs ==
    /\ user = "u1"
    /\ remote = OldRows
    /\ bookmarks = SetToSortedSeq("primary", remote)
    /\ other = bookmarks
    /\ alerts = 0
    /\ nextId = FirstId
    /\ clock = FirstTick
    /\ failures = 0
    /\ inflight = EmptyBag
    /\ stream = <<>>
    /\ last = Act("init", 0, FALSE)
    /\ settled = FALSE
    /\ selectedCategory = "All"
    /\ urls = OldUrls

\* The first tab visits and hears the channel; the second adds, deletes
\* and visits.
NextTabs ==
    \/ OtherAdd
    \/ \E i \in 1..MaxLen : OtherDelete(i)
    \/ \E i \in 1..MaxLen : OtherVisit(i)
    \/ \E i \in 1..MaxLen : HandleBookmarkVisit(i, "ok")
    \/ \E m \in Messages : UpdateDone(m)
    \/ Deliver(FALSE)

\* every queued notification is delivered in the end
SpecTabs == InitTabs /\ [][NextTabs]_vars /\ WF_vars(Deliver(FALSE))

\* Two accounts that sign in and out of the same tab: the second user owns
\* one row of the store.
TwoUsers == {"u1", "u2"}

InitUsers ==
    /\ user = NoUser
    /\ bookmarks = <<>>
    /\ alerts = 0
    /\ remote = OldRows \cup {Bookmark(3, "u2", 5, 0, 0)}
    /\ nextId = FirstId
    /\ clock = FirstTick
    /\ failures = 0
    /\ inflight = EmptyBag
    /\ stream = <<>>
    /\ last = Act("init", 0, FALSE)
    /\ settled = FALSE
    /\ selectedCategory = "All"
    /\ urls = OldUrls
    /\ other = <<>>

NextUsers ==
    \/ \E u \in TwoUsers \cup {NoUser} : AuthStateChange(u)
    \/ \E m \in Messages : SelectDone(m)
    \/ \E m \in Messages : FallbackDone(m)
    \/ \E i \in 1..MaxLen, st \in {"ok", "err", "throw"} : HandleBookmarkVisit(i, st)
    \/ \E m \in Messages : UpdateDone(m)
    \/ \E again \in BOOLEAN : Deliver(again)

SpecUsers == InitUsers /\ [][NextUsers]_vars

\* The add form with every typed title and url: sign-in, the submit, and
\* the refetch that follows a successful insert.
NextAddForm ==
    \/ \E u \in Users \cup {NoUser} : AuthStateChange(u)
    \/ \E m \in Messages : SelectDone(m)
    \/ \E m \in Messages : FallbackDone(m)
    \/ \E st \in {"ok", "err"}, title \in Titles, url \in Urls :
          HandleAddBookmark(st, title, url)
    \/ \E m \in Messages : InsertDone(m)

SpecAddForm == Init /\ [][NextAddForm]_vars

\* The two sorts on every collection: visits, their updates and the
\* notifications of the updates.
NextSort ==
    \/ \E i \in 1..MaxLen, st \in {"ok", "err", "throw"} : HandleBookmarkVisit(i, st)
    \/ \E m \in Messages : UpdateDone(m)
    \/ \E again \in BOOLEAN : Deliver(again)

SpecSort == InitSort /\ [][NextSort]_vars

\* ================================================================ claims
\* how often the entry b occurs in the collection s
Occurrences(s, b) == Cardinality({i \in DOMAIN s : s[i] = b})

\* s is t with some entries left out, the others in their order
RECURSIVE IsSubseq(_, _)
IsSubseq(s, t) ==
    IF s = <<>> THEN TRUE
    ELSE IF t = <<>> THEN FALSE
    ELSE IF Head(s) = Head(t) THEN IsSubseq(Tail(s), Tail(t))
    ELSE IsSubseq(s, Tail(t))

\* no neighbour pair of s is out of order under the comparator
Ordered(by, s) == \A i \in 1..(Len(s) - 1) : Compare(by, s[i], s[i + 1]) <= 0

\* the answers in flight of one operation
Pending(inf, op) == BagCardinality([m \in {x \in BagToSet(inf) : x.op = op} |-> inf[m]])

\* the collection lists exactly the rows the store holds for the user
InSync ==
    /\ user # NoUser
    /\ Len(bookmarks) = Cardinality(RowsOf(user))
    /\ {bookmarks[i] : i \in DOMAIN bookmarks} = RowsOf(user)

\* C1: in every reachable state no two entries of the local collection
\* have the same id.
C1_UniqueIds ==
    \A i, j \in DOMAIN bookmarks : i # j => bookmarks[i].id # bookmarks[j].id

\* C2: once a select that saw the present rows of the user has completed,
\* and while nothing is written and the user stays, the collection lists
\* exactly the rows of the store, whatever older answers or notifications
\* arrive afterwards.
C2_StaysConsistent == settled => InSync

\* C3: in every reachable state without a user the collection is empty.
C3_EmptyWithoutUser == user = NoUser => bookmarks = <<>>

\* C4: when the insert of an add has failed, the collection is left as it
\* was, one alert is shown, and no insert is sent again (no insert takes
\* the place of the failed one, the store is not touched).
C4_AddFailure ==
    [][last'.op = "insert_err" =>
        /\ bookmarks' = bookmarks
        /\ alerts' = alerts + 1
        /\ Pending(inflight', "insert") = Pending(inflight, "insert") - 1
        /\ InflightCount' = InflightCount - 1
        /\ remote' = remote /\ nextId' = nextId]_vars

C4_Witness ==
    /\ last.op = "insert_err"
    /\ alerts > 0
    /\ bookmarks # <<>>

\* C5: when the delete of a bookmark has failed, the collection is left
\* unchanged and the user is told (an alert is shown).
C5_DeleteFailure ==
    [][last'.op = "delete_err" =>
        /\ bookmarks' = bookmarks
        /\ alerts' = alerts + 1]_vars

\* C6: a visit changes the collection at once, while the answer of its
\* update is still in flight: every entry of the visited id has its count
\* raised by one and last_visited_at set to the visit time, and the
\* collection is in the order of the visit comparator; when the update
\* fails afterwards the collection is left alone and no alert is shown.
C6_OptimisticVisit ==
    [][/\ last'.op = "visit" =>
            /\ Pending(inflight', "update") = Pending(inflight, "update") + 1
            /\ Len(bookmarks') = Len(bookmarks)
            /\ \A i \in DOMAIN bookmarks :
                  bookmarks[i].id = last'.id =>
                     Occurrences(bookmarks',
                        [bookmarks[i] EXCEPT !.visit_count = VC(bookmarks[i]) + 1,
                                             !.last_visited_at = clock']) > 0
            /\ \A j \in DOMAIN bookmarks' :
                  bookmarks'[j].id = last'.id => bookmarks'[j].last_visited_at = clock'
            /\ Ordered("visit", bookmarks')
       /\ last'.op \in {"update_err", "update_throw"} =>
            /\ bookmarks' = bookmarks
            /\ alerts' = alerts]_vars

\* the update of a visit has failed and the entry still shows one visit
\* more than the store holds
C6_Witness ==
    /\ last.op \in {"update_err", "update_throw"}
    /\ \E i \in DOMAIN bookmarks : \E r \in remote :
          /\ bookmarks[i].id = last.id /\ r.id = last.id
          /\ VC(bookmarks[i]) = r.visit_count + 1
          /\ bookmarks[i].last_visited_at = clock

\* C7: an insert notification for an id already in the collection leaves
\* the collection as it is; for an absent id the new entity is put at the
\* front.
C7_InsertDedupe ==
    [][last'.op = "INSERT" =>
        IF HasId(bookmarks, Head(stream).row.id)
        THEN bookmarks' = bookmarks
        ELSE bookmarks' = <<Head(stream).row>> \o bookmarks]_vars

\* C8: a delete notification removes every entry of its id and nothing
\* else, the others keep their order; when no entry has the id the
\* collection is unchanged; no alert is shown.
C8_DeleteNotification ==
    [][last'.op = "DELETE" =>
        /\ ~HasId(bookmarks', Head(stream).row.id)
        /\ \A i \in DOMAIN bookmarks :
              bookmarks[i].id # Head(stream).row.id =>
                 Occurrences(bookmarks', bookmarks[i]) = Occurrences(bookmarks, bookmarks[i])
        /\ IsSubseq(bookmarks', bookmarks)
        /\ ~HasId(bookmarks, Head(stream).row.id) => bookmarks' = bookmarks
        /\ alerts' = alerts]_vars

\* a delete notification has removed entries and has left others
C8_Witness ==
    /\ last.op = "DELETE"
    /\ last.hit
    /\ bookmarks # <<>>

\* C9: an update notification for an id that is not in the collection
\* leaves the collection as it is: same entries, same fields, same order.
C9_UpdateUnknownId ==
    [][(last'.op = "UPDATE" /\ ~HasId(bookmarks, Head(stream).row.id)) =>
        bookmarks' = bookmarks]_vars

\* C10: an update notification whose row is identical to the entity the
\* collection holds for that id leaves the order of the collection and
\* every field of every entity unchanged.
C10_UpdateIdempotent ==
    [][(/\ last'.op = "UPDATE"
        /\ HasId(bookmarks, Head(stream).row.id)
        /\ \A i \in DOMAIN bookmarks :
              bookmarks[i].id = Head(stream).row.id => bookmarks[i] = Head(stream).row) =>
        bookmarks' = bookmarks]_vars

\* ------------------------------------------------- ranking (C11 .. C16)
\* the entries of a collection
Range(s) == {s[i] : i \in DOMAIN s}

\* the recency timestamp of the ranking: lastVisitedAt, or createdAt for
\* an entity never visited
Recency(b) == IF b.last_visited_at # 0 THEN b.last_visited_at ELSE b.created_at

\* the ranking order: visitCount descending, then recency descending
\* (negative: a ranks before b)
RankCmp(a, b) == IF VC(a) # VC(b) THEN VC(b) - VC(a) ELSE Recency(b) - Recency(a)

Ranked(s) == \A i \in 1..(Len(s) - 1) : RankCmp(s[i], s[i + 1]) <= 0

\* s and t hold the same entries, each as often
IsPerm(s, t) ==
    /\ Len(s) = Len(t)
    /\ \A x \in Range(s) \cup Range(t) : Occurrences(s, x) = Occurrences(t, x)

\* the entries of every class of equal sort keys are in out in the order
\* they had in inp
KeepsEqualKeys(by, inp, out) ==
    \A x \in Range(inp) :
        SelectSeq(out, LAMBDA y : Compare(by, x, y) = 0)
            = SelectSeq(inp, LAMBDA y : Compare(by, x, y) = 0)

\* the collection a sort step was given: the mapped collection of the
\* visit, or of the update notification
SortInput ==
    IF last'.op = "visit" THEN Visited(bookmarks, last'.id, clock')
    ELSE Replaced(bookmarks, Head(stream).row)

SortStep == last'.op \in {"visit", "UPDATE"}

\* C11: in every reachable state the collection shown is in the ranking
\* order: visitCount descending, ties broken by recency descending.
C11_RankingOrder == Ranked(bookmarks)

\* C12: after every visit and every update notification, an entry with a
\* greater visitCount stands before every entry with a smaller one,
\* whatever their timestamps are.
C12_CountFirst ==
    [][SortStep =>
        \A i, j \in DOMAIN bookmarks' :
            VC(bookmarks'[i]) > VC(bookmarks'[j]) => i < j]_vars

\* after a sort the entry just visited, the most recent of all, stands
\* behind an entry with more visits
C12_Witness ==
    /\ last.op \in {"visit", "UPDATE"}
    /\ \E i, j \in DOMAIN bookmarks :
          /\ i < j
          /\ VC(bookmarks[i]) > VC(bookmarks[j])
          /\ Recency(bookmarks[i]) < Recency(bookmarks[j])
          /\ bookmarks[j].id = last.id

\* C13: after every visit and every update notification, of two entries
\* with the same visitCount the one with the later recency timestamp
\* (lastVisitedAt, or createdAt when never visited) stands first.
C13_RecencyTieBreak ==
    [][SortStep =>
        \A i, j \in DOMAIN bookmarks' :
            (i < j /\ VC(bookmarks'[i]) = VC(bookmarks'[j])) =>
                Recency(bookmarks'[i]) >= Recency(bookmarks'[j])]_vars

\* C14: the sort of a visit and of an update notification returns a
\* permutation of the collection it was given, and entries with equal
\* sort keys keep their relative order.
C14_PermutationStable ==
    [][SortStep =>
        /\ IsPerm(bookmarks', SortInput)
        /\ KeepsEqualKeys(IF last'.op = "visit" THEN "visit" ELSE "update",
                          SortInput, bookmarks')]_vars

\* a sort has moved the visited entry past two entries of equal keys,
\* which stand as they stood
C14_Witness ==
    /\ last.op = "visit"
    /\ Len(bookmarks) = 3
    /\ bookmarks[1].id = last.id
    /\ Compare("visit", bookmarks[2], bookmarks[3]) = 0
    /\ bookmarks[2].id > bookmarks[3].id

\* the entry the recommendation rule names: of the first two the one with
\* strictly more visits, the first when they have as many; the only entry;
\* none (0) in an empty collection
RuleIndex(s) ==
    IF s = <<>> THEN 0
    ELSE IF Len(s) = 1 THEN 1
    ELSE IF VC(s[2]) > VC(s[1]) THEN 2 ELSE 1

\* C15: the recommended entry is, of the first two entries, the one with
\* strictly greater visitCount, the first when the counts are equal; the
\* only entry of a collection of one; none for an empty collection.
C15_RecommendationRule ==
    /\ (NextBestAction(bookmarks) = 0) = (RuleIndex(bookmarks) = 0)
    /\ bookmarks # <<>> =>
          bookmarks[NextBestAction(bookmarks)] = bookmarks[RuleIndex(bookmarks)]

\* C16: with a non-empty collection, fewer than two entries rank strictly
\* before the recommended entry in the ranking order.
C16_TopTwo ==
    bookmarks # <<>> =>
        Cardinality({b \in Range(bookmarks) :
                        RankCmp(b, bookmarks[NextBestAction(bookmarks)]) < 0}) < 2

\* ------------------------------------------------ add form (C17)
\* the host name with only a leading 'www.' removed
StripLeadingWww(h) == IF StartsWith(h, Www) THEN SubSeq(h, Len(Www) + 1, Len(h)) ELSE h

\* the title the derivation policy submits
PolicyTitle(title, url) ==
    IF Len(title) >= 3 THEN title
    ELSE IF url.kind = "parsed" THEN StripLeadingWww(url.hostname)
    ELSE title

\* C17: the insert an add sends carries the typed title when it has 3 or
\* more characters, else the host name of the url with only a leading
\* 'www.' removed, else (url not parsable) the typed title.
C17_TitleDerivation ==
    [][last'.op = "add" =>
        \E m \in BagToSet(inflight') :
            /\ m.op = "insert"
            /\ inflight' = inflight (+) SetToBag({m})
            /\ m.data.title = PolicyTitle(last'.title, last'.url)]_vars

\* ------------------------------------------------ refetch (C18 .. C20)
\* C18: with a user present, the sign-in (initial load), a visibility
\* change to visible and a window focus each send one primary select; a
\* visibility change to hidden sends nothing.
C18_RefetchTriggers ==
    [][/\ (\/ last'.op \in {"visible", "focus"}
           \/ (last'.op = "auth" /\ user' # NoUser)) =>
            /\ Pending(inflight', "select") = Pending(inflight, "select") + 1
            /\ InflightCount' = InflightCount + 1
       /\ last'.op = "hidden" => inflight' = inflight]_vars

\* the tab was hidden while it showed bookmarks and nothing was sent
C18_Witness ==
    /\ last.op = "hidden"
    /\ user # NoUser
    /\ bookmarks # <<>>
    /\ inflight = EmptyBag

\* C19: when the primary select returns an error, one fallback select is
\* sent in its place, for the rows of the session in created_at order;
\* when the fallback select succeeds its rows become the collection; no
\* alert is shown in either step.
C19_FallbackFetch ==
    [][/\ last'.op = "select_err" =>
            /\ \E n \in BagToSet(inflight') :
                  /\ n.op = "fallback"
                  /\ Pending(inflight', "fallback") = Pending(inflight, "fallback") + 1
                  /\ n.st = "ok" =>
                        /\ Range(n.data) = RowsOf(user)
                        /\ Ordered("fallback", n.data)
            /\ Pending(inflight', "select") = Pending(inflight, "select") - 1
            /\ bookmarks' = bookmarks
            /\ alerts' = alerts
       /\ last'.op = "fallback_ok" =>
            /\ \E m \in BagToSet(inflight) :
                  /\ m.op = "fallback" /\ m.st = "ok"
                  /\ inflight' = inflight (-) SetToBag({m})
                  /\ bookmarks' = m.data
            /\ Ordered("fallback", bookmarks')
            /\ alerts' = alerts]_vars

\* a fallback select has put the collection in created_at order, which is
\* not the order of the primary select
C19_Witness ==
    /\ last.op = "fallback_ok"
    /\ Len(bookmarks) >= 2
    /\ Ordered("fallback", bookmarks)
    /\ ~Ordered("primary", bookmarks)

\* C20: when the fallback select fails too, or the primary select throws,
\* the collection is left as it was, no alert is shown, and the refresh
\* is over: its answer is gone and nothing was sent in its place.
C20_BothFail ==
    [][last'.op \in {"fallback_err", "fallback_throw", "select_throw"} =>
        /\ bookmarks' = bookmarks
        /\ alerts' = alerts
        /\ InflightCount' = InflightCount - 1
        /\ \A m \in BagToSet(inflight') : CopiesIn(m, inflight') <= CopiesIn(m, inflight)]_vars

\* primary and fallback select have both failed under a collection that
\* is shown
C20_Witness ==
    /\ last.op \in {"fallback_err", "fallback_throw"}
    /\ bookmarks # <<>>
    /\ failures > 0

\* ------------------------------------------ identity (C21, C22, C30)
\* no answer is in flight after the step that was not in flight before it
NothingSent == \A m \in BagToSet(inflight') : CopiesIn(m, inflight') <= CopiesIn(m, inflight)

\* C21: while no user is set, no request (select, insert, delete, update)
\* is sent to the store and no channel is subscribed: no notification is
\* queued for the tab.
C21_OnlyWithIdentity ==
    [][/\ (user = NoUser /\ user' = NoUser) => NothingSent
       /\ user' = NoUser => stream' = <<>>]_vars

\* C22: once the effects of an identity are cleaned up (the user changed
\* or became absent), the channel of that identity delivers nothing and
\* the completion of a request sent under that identity leaves the
\* collection as it is.
C22_NoEffectAfterTeardown ==
    [][/\ user' # user => stream' = <<>>
       /\ \A m \in BagToSet(inflight) :
             (/\ m.uid # NoUser /\ m.uid # user /\ user' = user
              /\ CopiesIn(m, inflight') < CopiesIn(m, inflight)) =>
                bookmarks' = bookmarks]_vars

\* ------------------------------------------------------ add (C26)
\* the rows the store hands to the tab in the step: the data of the
\* selects in flight and the row of the oldest notification
Echoed ==
    UNION {Range(m.data) : m \in {x \in BagToSet(inflight) : x.op \in {"select", "fallback"}}}
      \cup (IF stream = <<>> THEN {} ELSE {Head(stream).row})

\* C26: neither the submit nor the completion of its insert changes the
\* collection; an id that is new in the collection came with a select
\* answer or an INSERT notification and has the value the store sent;
\* every entry has all five fields, an id the store has assigned and a
\* created_at the store's clock has passed.
C26_OnlyEchoedRows ==
    [][/\ last'.op \in {"add", "insert_ok", "insert_err"} => bookmarks' = bookmarks
       /\ \A b \in Range(bookmarks') :
            /\ ~HasId(bookmarks, b.id) =>
                 /\ last'.op \in {"select_ok", "fallback_ok", "INSERT"}
                 /\ b \in Echoed
            /\ DOMAIN b = {"id", "user_id", "created_at", "visit_count", "last_visited_at"}
            /\ b.id \in 1..(nextId' - 1)
            /\ CT(b) \in 1..clock']_vars

\* the insert of the add form has succeeded, its row is in the store and
\* the collection does not hold it yet
C26_Witness ==
    /\ last.op = "insert_ok"
    /\ \E r \in remote : r.id = FirstId
    /\ ~HasId(bookmarks, FirstId)

\* ---------------------------------------------------- visit (C27)
\* the entry b after one visit at the time now
Bumped(b, now) ==
    [b EXCEPT !.visit_count = VC(b) + 1, !.last_visited_at = now]

\* C27: a visit of id X keeps the number of entries; every entry with
\* another id occurs as often as before, with every field as before; the
\* entry of X is replaced by itself with visit_count one higher and
\* last_visited_at the time of the visit; and the updater applied for an
\* id that the collection does not hold returns the same entries.
C27_VisitFrame ==
    [][/\ last'.op = "visit" =>
            /\ Len(bookmarks') = Len(bookmarks)
            /\ \A b \in Range(bookmarks) :
                  IF b.id = last'.id
                  THEN /\ Occurrences(bookmarks', Bumped(b, clock')) = Occurrences(bookmarks, b)
                       /\ Occurrences(bookmarks', b) = 0
                  ELSE Occurrences(bookmarks', b) = Occurrences(bookmarks, b)
            /\ \A c \in Range(bookmarks') : c.id = last'.id => LV(c) = clock'
       /\ \A x \in 0..(FirstId + MaxAdds) :
            ~HasId(bookmarks, x) => IsPerm(VisitUpdate(bookmarks, x, clock + 1), bookmarks)]_vars

\* a visit in a collection of three entries: the visited entry carries the
\* time of the visit, the two others do not
C27_Witness ==
    /\ last.op = "visit"
    /\ Len(bookmarks) = 3
    /\ \E i \in DOMAIN bookmarks :
          /\ bookmarks[i].id = last.id
          /\ LV(bookmarks[i]) = clock /\ VC(bookmarks[i]) >= 1
          /\ \A j \in DOMAIN bookmarks : j # i => LV(bookmarks[j]) < clock

\* ------------------------------------------------ two users (C30)
\* C30: while a user is set, every entry of the collection is a row of
\* that user.
C30_NoCrossUserRows ==
    user # NoUser => \A b \in Range(bookmarks) : b.user_id = user

\* ------------------------------------------- categories (C24, C25, C29)
DevWords == {Github, Stack, Api}

ProductivityWords == {Google, Docs}

EntertainmentWords == {Youtube, Twitter, Social}

\* the url holds one of the words of K
HasAny(url, K) == \E k \in K : Includes(url, k)

\* C24: every url gets one of the four labels: Dev Tools exactly when it
\* holds a developer word; Productivity exactly when it holds a
\* productivity word and no developer word; Entertainment exactly when it
\* holds an entertainment word and none of the other two sets; General
\* exactly when it holds none.
C24_ClassifyPrecedence ==
    \A id \in DOMAIN urls :
       LET url == urls[id]
           label == Classify(url)
           dev == HasAny(url, DevWords)
           prod == HasAny(url, ProductivityWords)
           ent == HasAny(url, EntertainmentWords)
       IN  /\ label \in {"Dev Tools", "Productivity", "Entertainment", "General"}
           /\ (label = "Dev Tools") = dev
           /\ (label = "Productivity") = (~dev /\ prod)
           /\ (label = "Entertainment") = (~dev /\ ~prod /\ ent)
           /\ (label = "General") = (~dev /\ ~prod /\ ~ent)

\* the Dev Tools button was clicked, which the list offers for an entry
\* whose url has a developer word and a productivity word
C24_Witness ==
    /\ last.op = "category" /\ selectedCategory = "Dev Tools"
    /\ \E b \in Range(bookmarks) :
          /\ HasAny(UrlOf(b), DevWords) /\ HasAny(UrlOf(b), ProductivityWords)
          /\ \A c \in Range(bookmarks) : c # b => Classify(UrlOf(c)) = "General"

\* C25: the category list is All and the labels of the entries; with a
\* category other than All selected the list shows exactly the entries
\* with that label; every category of the list other than All shows an
\* entry when it is selected.
C25_FilterUsesClassifier ==
    LET listed == Range(Categories(bookmarks))
    IN  /\ listed = {"All"} \cup {Classify(UrlOf(b)) : b \in Range(bookmarks)}
        /\ selectedCategory # "All" =>
              Shown(bookmarks, selectedCategory) =
                 SelectSeq(bookmarks, LAMBDA b : Classify(UrlOf(b)) = selectedCategory)
        /\ \A cat \in listed \ {"All"} : Shown(bookmarks, cat) # <<>>

\* C29: the selected category is one of the categories of the list.
C29_SelectionListed == selectedCategory \in Range(Categories(bookmarks))

\* ------------------------------------------------ two tabs (C23, C28)
\* C23: a bookmark that the second tab has added is shown by the first
\* tab at some later time, and a bookmark that the second tab has deleted
\* is at some later time not shown by the first, with no refetch.
C23_CrossTab ==
    \A id \in 1..(FirstId + MaxAdds) :
       /\ (last.op = "other_add" /\ last.id = id) ~> HasId(bookmarks, id)
       /\ (last.op = "other_delete" /\ last.id = id) ~> ~HasId(bookmarks, id)

\* the first tab shows the bookmark the second tab added, put there by
\* the INSERT notification
C23_Witness ==
    /\ last.op = "INSERT" /\ last.id = FirstId
    /\ HasId(bookmarks, FirstId) /\ HasId(other, FirstId)

\* the visit_count the store holds for the id, 0 when it holds no such row
RemoteCount(rows, id) ==
    IF \E r \in rows : r.id = id THEN (CHOOSE r \in rows : r.id = id).visit_count ELSE 0

\* C28: a visit in either tab whose update reaches a row raises the
\* visit_count of the row in the store by one; and when no notification
\* is queued and no update is in flight, every entry of the first tab
\* has the visit_count of its row.
C28_NoVisitLost ==
    [][/\ (/\ last'.op \in {"visit", "other_visit"}
           /\ \E r \in remote : r.id = last'.id) =>
              RemoteCount(remote', last'.id) = RemoteCount(remote, last'.id) + 1
       /\ (stream' = <<>> /\ inflight' = EmptyBag) =>
              \A b \in Range(bookmarks') : \A r \in remote' :
                 r.id = b.id => VC(b) = r.visit_count]_vars
====
